---- MODULE Spec2Model ----
(***************************************************************************)
(* Model of src/src/lib.rs: the continuous snake (Vector, Segment,         *)
(* generate_food_position, Movement, Game::new, Game::process).            *)
(*                                                                         *)
(* f64 values are modelled in fixed point: an f64 is a record              *)
(* [v |-> n, nan |-> b], standing for the number n/4 (quarter cells), or   *)
(* for NaN when b holds.  All inputs of the model are multiples of 0.25    *)
(* of small magnitude, on which the f64 operations used by the program     *)
(* (+, -, *, hypot of an axis-aligned vector, x * (1/x) for x < 12.25,     *)
(* round) are exact; 0 * (1/0) is NaN, and every comparison with NaN is    *)
(* false (!= is true), as in IEEE 754.                                     *)
(***************************************************************************)
EXTENDS Integers, Sequences, FiniteSets, TLC

\* the fields of Game; status: "ok" between calls, "panicked" once a call
\* has panicked, "calling" while generate_food_position is to be applied;
\* ticks: the process calls made; args: the arguments of Game::new that are
\* not fields; call: the arguments of the last process call; fits: every
\* process call so far had speed * timespan <= the total polyline length
VARIABLES width, height, speed, score, direction, food, snake, status, ticks, args, call, fits

vars == <<width, height, speed, score, direction, food, snake, status, ticks, args, call, fits>>

\* ---------------------------------------------------------------- bounds
MaxTicks == 3          \* process calls per behaviour
ScenarioTicks == 2     \* process calls per behaviour of the 10x10 scenario
MaxLen == 2            \* snake_length argument of Game::new: 1..MaxLen
MaxPoly == 3           \* waypoints of a polyline handed to generate_food_position
TieTicks == 1          \* process calls per behaviour with an assigned direction

\* ------------------------------------------------------------------- f64
One == 4               \* the f64 1.0 in quarter cells
Half == 2              \* the f64 0.5 in quarter cells

F(n) == [v |-> n, nan |-> FALSE]
NaN == [v |-> 0, nan |-> TRUE]

Abs(n) == IF n < 0 THEN -n ELSE n

FAdd(a, b) == IF a.nan \/ b.nan THEN NaN ELSE F(a.v + b.v)
FSub(a, b) == IF a.nan \/ b.nan THEN NaN ELSE F(a.v - b.v)
FNeg(a) == IF a.nan THEN NaN ELSE F(-a.v)
\* an absolute value that keeps the sign
FAbsMut(a) == a

FAbs(a) == IF a.nan THEN NaN ELSE F(Abs(a.v))
\* a * b: the product of n/4 and m/4 is (n*m/4)/4
FMul(a, b) == IF a.nan \/ b.nan THEN NaN ELSE F((a.v * b.v) \div One)
FGe(a, b) == ~a.nan /\ ~b.nan /\ a.v >= b.v
FGt(a, b) == ~a.nan /\ ~b.nan /\ a.v > b.v
FNe(a, b) == a.nan \/ b.nan \/ a.v # b.v

\* round with the half-way cases towards zero
RoundMut(a) ==
    IF a.nan THEN NaN
    ELSE IF a.v >= 0 THEN F(((a.v + Half - 1) \div One) * One)
    ELSE F(-(((Half - 1 - a.v) \div One) * One))

\* f64::round: to the nearest integer, half-way cases away from zero
Round(a) ==
    IF a.nan THEN NaN
    ELSE IF a.v >= 0 THEN F(((a.v + Half) \div One) * One)
    ELSE F(-(((Half - a.v) \div One) * One))

\* f64::approximate_eq: |self - other| < f64::EPSILON; two multiples of 0.25
\* are closer than EPSILON exactly when they are the same number
approximate_eq(a, b) ==
    LET d == FAbs(FSub(a, b)) IN ~d.nan /\ d.v = 0

\* ---------------------------------------------------------------- Vector
Vec(x, y) == [x |-> x, y |-> y]
V(n, m) == Vec(F(n), F(m))

VecAdd(a, b) == Vec(FAdd(a.x, b.x), FAdd(a.y, b.y))
VecSub(a, b) == Vec(FSub(a.x, b.x), FSub(a.y, b.y))
VecMul(a, k) == Vec(FMul(a.x, k), FMul(a.y, k))
\* a negation that negates nothing
VecNegMut(a) == a

VecNeg(a) == Vec(FNeg(a.x), FNeg(a.y))
\* an equality that compares x with y and y with x
VecEqMut(a, b) == approximate_eq(a.x, b.y) /\ approximate_eq(a.y, b.x)

VecEq(a, b) == approximate_eq(a.x, b.x) /\ approximate_eq(a.y, b.y)

\* the square of x.hypot(y), in 1/16 cells squared
Hypot2(a) == a.x.v * a.x.v + a.y.v * a.y.v

\* Vector::length: x.hypot(y).  The root is taken exactly; a length that is
\* not a multiple of 0.25 has no value here (CHOOSE fails), it is never
\* rounded.
VecLength(a) ==
    IF a.x.nan \/ a.y.nan THEN NaN
    ELSE IF a.y.v = 0 THEN F(Abs(a.x.v))
    ELSE IF a.x.v = 0 THEN F(Abs(a.y.v))
    ELSE F(CHOOSE n \in 0..(Abs(a.x.v) + Abs(a.y.v)) : n * n = Hypot2(a))

\* Vector::normalize: self * (1.0 / self.length()).  For length 0 the factor
\* is infinite and 0 * inf is NaN in both coordinates.
Normalize(a) ==
    LET len == VecLength(a) IN
    IF len.nan THEN Vec(NaN, NaN)
    ELSE IF len.v = 0 THEN Vec(NaN, NaN)
    ELSE Vec(F((a.x.v * One) \div len.v), F((a.y.v * One) \div len.v))

\* --------------------------------------------------------------- Segment
Segment(start, end) == [start |-> start, end |-> end]
SegVector(s) == VecSub(s.end, s.start)
SegLength(s) == VecLength(SegVector(s))

\* a containment test that leaves out the two end points
is_point_insideMut(s, point) ==
    LET A == Hypot2(VecSub(point, s.start))
        B == Hypot2(VecSub(s.end, point))
        C == Hypot2(VecSub(s.end, s.start))
    IN A # 0 /\ B # 0 /\ C - A - B >= 0 /\ 4 * A * B = (C - A - B) * (C - A - B)

\* Segment::is_point_inside: length ~= |start->point| + |point->end|.
\* With a, b, c the three lengths, a + b = c is decided on the squares
\* A, B, C without taking roots: a + b = c  iff  C - A - B >= 0 and
\* 4AB = (C - A - B)^2.  Off the segment the two sides differ by far more
\* than EPSILON on the grids of the model.
is_point_inside(s, point) ==
    LET first == Segment(s.start, point)
        second == Segment(point, s.end)
        A == Hypot2(SegVector(first))
        B == Hypot2(SegVector(second))
        C == Hypot2(SegVector(s))
        anyNaN == \/ s.start.x.nan \/ s.start.y.nan
                  \/ s.end.x.nan \/ s.end.y.nan
                  \/ point.x.nan \/ point.y.nan
    IN ~anyNaN /\ C - A - B >= 0 /\ 4 * A * B = (C - A - B) * (C - A - B)

\* ------------------------------------------------ generate_food_position
\* snake.windows(2).map(Segment::new)
Segments(s) == { Segment(s[i], s[i + 1]) : i \in 1..(Len(s) - 1) }

\* the free_positions vector, as a set
FreePositions(w, h, s) ==
    { p \in { V(x * One + Half, y * One + Half) : x \in 0..(w - 1), y \in 0..(h - 1) } :
        ~(\E seg \in Segments(s) : is_point_inside(seg, p)) }

\* -------------------------------------------------------------- Movement
Movements == {"Top", "Right", "Down", "Left"}
None == "None"

MovementVector(m) ==
    CASE m = "Top" -> V(0, -One)
      [] m = "Right" -> V(One, 0)
      [] m = "Down" -> V(0, One)
      [] m = "Left" -> V(-One, 0)

\* the four axis unit vectors accepted as the direction argument
Directions == { MovementVector(m) : m \in Movements }

\* ------------------------------------------------------- process_movement
\* an erosion that, out of segments, collapses the tail onto the head
RECURSIVE ErodeMut(_, _)
ErodeMut(s, remaining_distance) ==
    IF Len(s) <= 1 THEN s
    ELSE LET point == Head(s)
             rest == Tail(s)
             next == Head(rest)
             segment == Segment(point, next)
             length == SegLength(segment)
         IN IF FGe(length, remaining_distance)
            THEN <<VecAdd(point, VecMul(Normalize(SegVector(segment)), remaining_distance))>> \o rest
            ELSE IF Len(rest) = 1 THEN <<next, next>>
            ELSE ErodeMut(rest, FSub(remaining_distance, length))

\* The tail erosion loop (while self.snake.len() > 1 ...) followed by
\* new_snake.append(&mut self.snake): the waypoints left after eroding
\* remaining_distance from the tail end of s.
RECURSIVE Erode(_, _)
Erode(s, remaining_distance) ==
    IF Len(s) <= 1 THEN s
    ELSE LET point == Head(s)
             rest == Tail(s)
             next == Head(rest)
             segment == Segment(point, next)
             length == SegLength(segment)
         IN IF FGe(length, remaining_distance)
            THEN <<VecAdd(point, VecMul(Normalize(SegVector(segment)), remaining_distance))>> \o rest
            ELSE Erode(rest, FSub(remaining_distance, length))

\* a step of one time unit whatever the timespan
FullDistanceMut(sp, timespan) == sp

\* full_distance = self.speed * timespan
FullDistance(sp, timespan) == FMul(sp, timespan)

\* a change test on the coordinates themselves, not on their roundings
RoundedChangedMut(old, new) == FNe(old, new)

\* old.round() != new.round()
RoundedChanged(old, new) == FNe(Round(old), Round(new))

\* the head read with last(), left in the list
PopHeadMut(eroded) == eroded

\* the waypoints left by let old_head = self.snake.pop().unwrap()
PopHead(eroded) == SubSeq(eroded, 1, Len(eroded) - 1)

\* the edge taken on the wrong side of the old cell
BreakpointComponentMut(old_rounded, new_rounded) ==
    IF FGt(new_rounded, old_rounded)
    THEN FSub(old_rounded, F(Half))
    ELSE FAdd(old_rounded, F(Half))

\* breakpoint_component: old_rounded + 0.5 if new_rounded > old_rounded,
\* else old_rounded - 0.5
BreakpointComponent(old_rounded, new_rounded) ==
    IF FGt(new_rounded, old_rounded)
    THEN FAdd(old_rounded, F(Half))
    ELSE FSub(old_rounded, F(Half))

\* a tie-break that resolves on y whenever y changed
TurnOnXMut(rounded_x_changed, rounded_y_changed) == ~rounded_y_changed

\* the axis a turn is resolved on: `if rounded_x_changed { x } else { y }`
TurnOnX(rounded_x_changed, rounded_y_changed) == rounded_x_changed

\* the total length of the segments of polyline s, as the f64 sum
RECURSIVE TotalLength(_)
TotalLength(s) ==
    IF Len(s) <= 1 THEN F(0)
    ELSE FAdd(SegLength(Segment(s[1], s[2])), TotalLength(Tail(s)))

\* One call of process_movement on snake s, direction dir, speed sp: every
\* local of the function, and the snake and direction it leaves.
process_movement(s, dir, sp, timespan, movement) ==
    LET full_distance == FullDistance(sp, timespan)
        eroded == Erode(s, full_distance)
        old_head == eroded[Len(eroded)]
        body == PopHead(eroded)
        new_head == VecAdd(old_head, VecMul(dir, full_distance))
        requested == movement # None
        new_direction == IF requested THEN MovementVector(movement) ELSE dir
        admissible == /\ requested
                      /\ ~VecEq(dir, VecNeg(new_direction))
                      /\ ~VecEq(dir, new_direction)
        old_x_rounded == Round(old_head.x)
        old_y_rounded == Round(old_head.y)
        new_x_rounded == Round(new_head.x)
        new_y_rounded == Round(new_head.y)
        rounded_x_changed == RoundedChanged(old_head.x, new_head.x)
        rounded_y_changed == RoundedChanged(old_head.y, new_head.y)
        resolved == admissible /\ (rounded_x_changed \/ rounded_y_changed)
        on_x == TurnOnX(rounded_x_changed, rounded_y_changed)
        old == IF on_x THEN old_head.x ELSE old_head.y
        old_rounded == IF on_x THEN old_x_rounded ELSE old_y_rounded
        new_rounded == IF on_x THEN new_x_rounded ELSE new_y_rounded
        breakpoint_component == BreakpointComponent(old_rounded, new_rounded)
        breakpoint == IF on_x
                      THEN Vec(breakpoint_component, old_head.y)
                      ELSE Vec(old_head.x, breakpoint_component)
        leftover == FSub(full_distance, FAbs(FSub(old, breakpoint_component)))
        head == VecAdd(breakpoint, VecMul(new_direction, leftover))
    IN [ snake |-> IF resolved THEN body \o <<breakpoint, head>> ELSE Append(body, new_head),
         direction |-> IF resolved THEN new_direction ELSE dir,
         resolved |-> resolved,
         admissible |-> admissible,
         full_distance |-> full_distance,
         eroded |-> eroded,
         old_head |-> old_head,
         new_head |-> new_head,
         rounded_x_changed |-> rounded_x_changed,
         rounded_y_changed |-> rounded_y_changed,
         breakpoint |-> breakpoint,
         leftover |-> leftover,
         head |-> head ]

\* -------------------------------------------------------------- Game::new
\* The value of food while no Game exists (Game::new panicked).
NoFood == Vec(NaN, NaN)

\* The value of call while process has not been called.
NoCall == [timespan |-> F(0), movement |-> None]

NewHead(w, h) ==
    Vec(FSub(Round(F((w * One) \div 2)), F(Half)),
        FSub(Round(F((h * One) \div 2)), F(Half)))

\* a tail laid ahead of the head
NewSnakeMut(w, h, n, d) ==
    LET head == NewHead(w, h)
        tail_tip == VecAdd(head, VecMul(d, F(n * One)))
    IN <<tail_tip, head>>

NewSnake(w, h, n, d) ==
    LET head == NewHead(w, h)
        tail_tip == VecSub(head, VecMul(d, F(n * One)))
    IN <<tail_tip, head>>

\* Game::new(w, h, sp, n, d): the Game it returns, with food any element of
\* free_positions; free_positions.choose(..) is None on an empty vector and
\* the unwrap() panics.
GameNew(w, h, sp, n, d) ==
    LET free == FreePositions(w, h, NewSnake(w, h, n, d)) IN
    /\ width = w
    /\ height = h
    /\ speed = sp
    /\ score = 0
    /\ direction = d
    /\ snake = NewSnake(w, h, n, d)
    /\ IF free = {} THEN food = NoFood /\ status = "panicked"
                    ELSE food \in free /\ status = "ok"
    /\ ticks = 0
    /\ args = [snake_length |-> n, direction |-> d]
    /\ call = NoCall
    /\ fits = TRUE

\* ---------------------------------------------------------- Game::process
\* timespan arguments of process, in quarter time units: 0, 0.25, 0.5, 1.0
Timespans == {F(0), F(1), F(Half), F(One)}

\* a process that scores when the head runs over the food
ProcessMut(limit) ==
    /\ status = "ok"
    /\ ticks < limit
    /\ \E timespan \in Timespans, movement \in Movements \cup {None} :
         LET r == process_movement(snake, direction, speed, timespan, movement) IN
         /\ snake' = r.snake
         /\ direction' = r.direction
         /\ call' = [timespan |-> timespan, movement |-> movement]
         /\ fits' = (fits /\ FGe(TotalLength(snake), r.full_distance))
         /\ score' = IF is_point_inside(Segment(r.old_head, r.new_head), food)
                     THEN score + 1 ELSE score
    /\ ticks' = ticks + 1
    /\ UNCHANGED <<width, height, speed, food, status, args>>

Process(limit) ==
    /\ status = "ok"
    /\ ticks < limit
    /\ \E timespan \in Timespans, movement \in Movements \cup {None} :
         LET r == process_movement(snake, direction, speed, timespan, movement) IN
         /\ snake' = r.snake
         /\ direction' = r.direction
         /\ call' = [timespan |-> timespan, movement |-> movement]
         /\ fits' = (fits /\ FGe(TotalLength(snake), r.full_distance))
    /\ ticks' = ticks + 1
    /\ UNCHANGED <<width, height, speed, score, food, status, args>>

\* arguments of Game::new: grids of 1 x 1 and 2 x 1 cells, speeds 1.0 and 2.0
Widths == {1, 2}
Heights == {1}
Speeds == {F(One), F(One + One)}

Init ==
    \E w \in Widths, h \in Heights, sp \in Speeds, n \in 1..MaxLen, d \in Directions :
        GameNew(w, h, sp, n, d)

Next == Process(MaxTicks)

Spec == Init /\ [][Next]_vars

\* The scenario of the 10 x 10 grid: Game::new(10, 10, 1.0, 3, (1, 0)).
InitScenario == GameNew(10, 10, F(One), 3, V(One, 0))

NextScenario == Process(ScenarioTicks)

SpecScenario == InitScenario /\ [][NextScenario]_vars

\* -------------------------------- generate_food_position on any polyline
\* waypoints on a half-cell lattice: x in 0, 0.5, 1.0, 1.5 and y in 0, 0.5, 1.0
FoodPoints == { V(i * Half, j * Half) : i \in 0..3, j \in 0..2 }

AxisAligned(a, b) == a.x = b.x \/ a.y = b.y

\* polylines of 1..MaxPoly waypoints whose segments are horizontal, vertical
\* or of length zero
RECURSIVE Polylines(_)
Polylines(n) ==
    IF n = 1 THEN { <<p>> : p \in FoodPoints }
    ELSE LET shorter == Polylines(n - 1) IN
         shorter \cup { Append(s, p) : s \in { t \in shorter : Len(t) = n - 1 }, p \in FoodPoints }

AxisPolylines ==
    { s \in Polylines(MaxPoly) : \A i \in 1..(Len(s) - 1) : AxisAligned(s[i], s[i + 1]) }

InitFood ==
    /\ width \in {1, 2}
    /\ height \in {1, 2}
    /\ snake \in AxisPolylines
    /\ food = NoFood
    /\ status = "calling"
    /\ speed = F(One)
    /\ score = 0
    /\ direction = V(One, 0)
    /\ ticks = 0
    /\ args = [snake_length |-> 0, direction |-> V(One, 0)]
    /\ call = NoCall
    /\ fits = TRUE

\* generate_food_position(width, height, &snake)
GenerateFood ==
    /\ status = "calling"
    /\ LET free == FreePositions(width, height, snake) IN
       IF free = {} THEN food' = NoFood /\ status' = "panicked"
                    ELSE food' \in free /\ status' = "ok"
    /\ UNCHANGED <<width, height, speed, score, direction, snake, ticks, args, call, fits>>

NextFood == GenerateFood

SpecFood == InitFood /\ [][NextFood]_vars

\* ------------------------------------------------- pub direction: Vector
\* `direction` is a public field of the exported struct (lib.rs:183): a
\* caller may assign any Vector to it between two process calls. The
\* diagonal unit steps are the assignments under which one advance changes
\* both rounded coordinates of the head.
Diagonals == { V(a * One, b * One) : a, b \in {-1, 1} }

\* game.direction = d with d diagonal; args.direction keeps the direction the
\* game was last given
SetDirection ==
    /\ status = "ok"
    /\ ticks < TieTicks
    /\ direction \in Directions
    /\ \E d \in Diagonals :
         /\ direction' = d
         /\ args' = [args EXCEPT !.direction = d]
    /\ UNCHANGED <<width, height, speed, score, food, snake, status, ticks, call, fits>>

\* the lengths of the model are those of horizontal and vertical segments:
\* process is followed on snakes whose segments are all axis-aligned, which
\* is every snake until a tick is made along a diagonal
AxisSnake == \A i \in 1..(Len(snake) - 1) : AxisAligned(snake[i], snake[i + 1])

ProcessTie == AxisSnake /\ Process(TieTicks)

NextTie == SetDirection \/ ProcessTie

SpecTie == Init /\ [][NextTie]_vars

TypeOK == status \in {"ok", "panicked", "calling"}

\* ================================================================ claims
Last(s) == s[Len(s)]

\* the point (a + b/4, c + e/4) given in cells and quarter cells
Pt(a, b, c, e) == V(a * One + b, c * One + e)

\* v displaced by dist along the axis unit vector d
Along(v, d, dist) == V(v.x.v + (d.x.v \div One) * dist, v.y.v + (d.y.v \div One) * dist)

\* the distance speed * timespan of the last call, in quarter cells
CallDistance == (speed.v * call.timespan.v) \div One

\* ---------------------------------------------------------------------
\* C1: after Game::new and after any sequence of process calls with
\* timespan >= 0 and any movement, the snake has at least 2 waypoints.
C1_AtLeastTwoWaypoints == status = "ok" => Len(snake) >= 2

\* ---------------------------------------------------------------------
\* C2: a process(timespan, None) call with 0 <= speed * timespan <= total
\* polyline length leaves the sum of the segment lengths equal to what it
\* was before the call.
C2_LengthConserved ==
    [][ ( /\ status = "ok"
          /\ ticks' = ticks + 1
          /\ call'.movement = None
          /\ FGe(TotalLength(snake), F(CallDistance')) )
        => ( /\ ~TotalLength(snake').nan
             /\ TotalLength(snake') = TotalLength(snake) ) ]_vars

\* ---------------------------------------------------------------------
\* C3: Game::new yields the two waypoints head - d * n and head, where head
\* is the centre of the centre cell, with score 0 and direction d; a
\* following process(t, None) with speed * t <= n yields the two waypoints
\* tail + d * speed * t and head + d * speed * t and leaves the direction.
C3_CentreHead == V(((width + 1) \div 2) * One - Half, ((height + 1) \div 2) * One - Half)

C3_Tail == Along(C3_CentreHead, args.direction, -(args.snake_length * One))

C3_NewThenStraight ==
    /\ []( (status = "ok" /\ ticks = 0)
             => /\ snake = <<C3_Tail, C3_CentreHead>>
                /\ score = 0
                /\ direction = args.direction )
    /\ [][ ( /\ status = "ok"
             /\ ticks = 0
             /\ ticks' = 1
             /\ call'.movement = None
             /\ CallDistance' <= args.snake_length * One )
           => ( /\ snake' = << Along(C3_Tail, args.direction, CallDistance'),
                               Along(C3_CentreHead, args.direction, CallDistance') >>
                /\ direction' = args.direction ) ]_vars

C3_Witness ==
    /\ status = "ok"
    /\ ticks = 1
    /\ call.movement = None
    /\ CallDistance > 0
    /\ CallDistance < args.snake_length * One
    /\ snake = << Along(C3_Tail, args.direction, CallDistance),
                  Along(C3_CentreHead, args.direction, CallDistance) >>

\* ---------------------------------------------------------------------
\* C4: from the state reached by Game::new(10, 10, 1.0, 3, (1, 0)) and
\* process(1.0, None), the call process(0.5, Some(Down)) resolves the turn
\* in that tick: a breakpoint with x = old_rounded + 0.5 or old_rounded - 0.5
\* is the waypoint before the head, and direction becomes (0, 1).
C4_ScenarioCall ==
    /\ status = "ok"
    /\ ticks = 1
    /\ call = [timespan |-> F(One), movement |-> None]
    /\ ticks' = 2
    /\ call' = [timespan |-> F(Half), movement |-> "Down"]

C4_TurnResolvedSameTick ==
    [][ C4_ScenarioCall
        => ( /\ direction' = V(0, One)
             /\ Len(snake') >= 2
             /\ LET breakpoint == snake'[Len(snake') - 1]
                    old_rounded == Round(Last(snake).x)
                IN /\ breakpoint.x \in { FAdd(old_rounded, F(Half)), FSub(old_rounded, F(Half)) }
                   /\ breakpoint.y = Last(snake).y
                   /\ Len(snake') = Len(snake) + 1 ) ]_vars

\* C4 as amended: in that call the turn is deferred; the snake goes from
\* (2.5, 4.5), (5.5, 4.5) to (3.0, 4.5), (6.0, 4.5) with no breakpoint and the
\* direction stays (1, 0).
C4_TurnDeferred ==
    [][ C4_ScenarioCall
        => ( /\ snake = << Pt(2, Half, 4, Half), Pt(5, Half, 4, Half) >>
             /\ direction = V(One, 0)
             /\ snake' = << Pt(3, 0, 4, Half), Pt(6, 0, 4, Half) >>
             /\ direction' = V(One, 0) ) ]_vars

C4_Witness ==
    /\ status = "ok"
    /\ ticks = 2
    /\ call = [timespan |-> F(Half), movement |-> "Down"]
    /\ snake = << Pt(3, 0, 4, Half), Pt(6, 0, 4, Half) >>
    /\ direction = V(One, 0)

\* ---------------------------------------------------------------------
\* C5: process(t, Some(m)) with m's unit vector the current direction or
\* its negation leaves direction unchanged and produces the waypoints of
\* process(t, None) on the same state.
C5_TurnSuppression ==
    [][ ( /\ status = "ok"
          /\ ticks' = ticks + 1
          /\ call'.movement \in Movements
          /\ \/ MovementVector(call'.movement) = direction
             \/ MovementVector(call'.movement) = Along(V(0, 0), direction, -One) )
        => ( /\ direction' = direction
             /\ snake' = process_movement(snake, direction, speed, call'.timespan, None).snake ) ]_vars

\* a reversal request in a tick whose straight advance crossed a rounding
\* boundary: the head is one waypoint ahead of the previous head
C5_Witness ==
    /\ status = "ok"
    /\ ticks > 0
    /\ MovementVector(IF call.movement \in Movements THEN call.movement ELSE "Top")
         = Along(V(0, 0), direction, -One)
    /\ call.movement \in Movements
    /\ Len(snake) >= 2
    /\ LET old_head == Along(Last(snake), direction, -CallDistance) IN
         \/ Round(old_head.x) # Round(Last(snake).x)
         \/ Round(old_head.y) # Round(Last(snake).y)

\* ---------------------------------------------------------------------
\* C6: direction is one of the four axis unit vectors in every state, and it
\* changes only in a tick that resolves a turn: a movement is requested, its
\* vector is neither direction nor its negation, and a rounded coordinate of
\* the head changes on the straight advance; direction then is that vector.
C6_TurnResolved ==
    LET old_head == Last(snake)
        new_head == Along(old_head, direction, CallDistance')
        m == call'.movement
    IN /\ m \in Movements
       /\ MovementVector(m) # direction
       /\ MovementVector(m) # Along(V(0, 0), direction, -One)
       /\ \/ Round(old_head.x) # Round(new_head.x)
          \/ Round(old_head.y) # Round(new_head.y)

C6_DirectionMachine ==
    /\ [](status = "ok" => direction \in { V(0, -One), V(One, 0), V(0, One), V(-One, 0) })
    /\ [][ (status = "ok" /\ ticks' = ticks + 1)
           => /\ (direction' # direction) => C6_TurnResolved
              /\ C6_TurnResolved => direction' = MovementVector(call'.movement) ]_vars

C6_Witness ==
    /\ status = "ok"
    /\ ticks > 0
    /\ call.movement \in Movements
    /\ direction # args.direction
    /\ direction = MovementVector(IF call.movement \in Movements THEN call.movement ELSE "Top")

\* ---------------------------------------------------------------------
\* C7: for T >= 0 with speed * T <= total polyline length, the head after
\* process(T, None) is the head after process(T/2, None); process(T/2, None).
C7_Halvable == { t \in Timespans : t.v % 2 = 0 }

C7_Fits(T) == FGe(TotalLength(snake), F((speed.v * T.v) \div One))

C7_SubdivisionInvariance ==
    status = "ok" =>
      \A T \in C7_Halvable :
        C7_Fits(T) =>
          LET half == F(T.v \div 2)
              whole == process_movement(snake, direction, speed, T, None)
              first == process_movement(snake, direction, speed, half, None)
              second == process_movement(first.snake, first.direction, speed, half, None)
          IN Last(whole.snake) = Last(second.snake)

\* a snake with a corner, after a straight tick, on which a whole step fits
C7_Witness ==
    /\ status = "ok"
    /\ ticks > 0
    /\ call.movement = None
    /\ Len(snake) >= 3
    /\ \E T \in C7_Halvable : T.v > 0 /\ C7_Fits(T)

\* ---------------------------------------------------------------------
\* C8: the food position chosen by generate_food_position is the centre
\* (x + 0.5, y + 0.5) of a cell with 0 <= x < width, 0 <= y < height that
\* lies on no segment between consecutive waypoints (end points included),
\* and every such centre is a possible choice.
C8_OnSegment(p, a, b) ==
    LET px == p.x.v  py == p.y.v
        ax == a.x.v  ay == a.y.v
        bx == b.x.v  by == b.y.v
    IN /\ (bx - ax) * (py - ay) = (by - ay) * (px - ax)
       /\ (IF ax <= bx THEN ax <= px /\ px <= bx ELSE bx <= px /\ px <= ax)
       /\ (IF ay <= by THEN ay <= py /\ py <= by ELSE by <= py /\ py <= ay)

C8_FreeCentres ==
    { p \in { V(x * One + Half, y * One + Half) : x \in 0..(width - 1), y \in 0..(height - 1) } :
        \A i \in 1..(Len(snake) - 1) : ~C8_OnSegment(p, snake[i], snake[i + 1]) }

C8_FoodOffSnake ==
    /\ status = "ok" => food \in C8_FreeCentres
    /\ status = "calling" => \A c \in C8_FreeCentres : ENABLED (GenerateFood /\ food' = c)

\* food was placed next to a snake that has a corner and covers some cell
C8_Witness ==
    /\ status = "ok"
    /\ food # NoFood
    /\ Len(snake) = 3
    /\ snake[1].x # snake[2].x
    /\ snake[2].y # snake[3].y
    /\ Cardinality(C8_FreeCentres) < width * height
    /\ Cardinality(C8_FreeCentres) > 1

\* ---------------------------------------------------------------------
\* C9: when no cell is free, generate_food_position / Game::new gives its
\* caller a distinct board-full result; it never panics.
C9_BoardFullSurfaced ==
    (status # "calling" /\ ticks = 0 /\ C8_FreeCentres = {}) => status = "board_full"

\* ---------------------------------------------------------------------
\* C10: process changes only snake and direction: width, height, speed,
\* score and food keep the values they have after Game::new, also when the
\* head passes over the food cell.
C10_ProcessFrame ==
    /\ [](status = "ok" => score = 0)
    /\ [][ (status = "ok" /\ ticks' = ticks + 1)
           => /\ width' = width
              /\ height' = height
              /\ speed' = speed
              /\ score' = score
              /\ food' = food ]_vars

\* the head has just run over the food cell
C10_Witness ==
    /\ status = "ok"
    /\ ticks > 0
    /\ score = 0
    /\ Len(snake) >= 2
    /\ Last(snake) # food
    /\ snake[Len(snake) - 1] # food
    /\ ~snake[Len(snake) - 1].x.nan
    /\ C8_OnSegment(food, snake[Len(snake) - 1], Last(snake))

\* ---------------------------------------------------------------------
\* C11: in any sequence of process calls with timespan >= 0, tail erosion
\* never normalizes a zero-length segment, so no waypoint ever becomes NaN.
C11_NoNaNWaypoint ==
    status = "ok" => \A i \in 1..Len(snake) : ~snake[i].x.nan /\ ~snake[i].y.nan

\* ---------------------------------------------------------------------
\* C12: when full_distance = speed * timespan exceeds the total polyline
\* length, process crashes instead of completing the tick.
C12_Overshoot ==
    /\ status = "ok"
    /\ ticks' = ticks + 1
    /\ ~TotalLength(snake).nan
    /\ CallDistance' > TotalLength(snake).v

C12_OvershootCrashes ==
    [][ C12_Overshoot => status' = "panicked" ]_vars

\* C12 as amended: process returns, and the snake is left with only the
\* waypoints pushed in that tick: new_head, or breakpoint and head when a
\* turn is resolved.
C12_OvershootCollapses ==
    [][ C12_Overshoot
        => /\ status' = "ok"
           /\ IF C6_TurnResolved
              THEN Len(snake') = 2 /\ direction' = MovementVector(call'.movement)
              ELSE snake' = << Along(Last(snake), direction, CallDistance') >>
                   /\ direction' = direction ]_vars

C12_Witness ==
    /\ status = "ok"
    /\ ticks = 1
    /\ ~fits
    /\ Len(snake) = 1
    /\ CallDistance > args.snake_length * One

\* ---------------------------------------------------------------------
\* C13: in every process call in which no turn is resolved, the waypoint
\* count after the call is one more than before the call.
C13_Straight ==
    /\ status = "ok"
    /\ ticks' = ticks + 1
    /\ ~C6_TurnResolved

C13_StraightTickAddsWaypoint ==
    [][ C13_Straight => Len(snake') = Len(snake) + 1 ]_vars

\* the number of leading waypoints of s that erosion by rem drops whole: the
\* start of each segment shorter than what is left of rem, and every start
\* from a segment with a NaN end on
RECURSIVE C13_Dropped(_, _)
C13_Dropped(s, rem) ==
    IF Len(s) <= 1 THEN 0
    ELSE IF s[1].x.nan \/ s[1].y.nan \/ s[2].x.nan \/ s[2].y.nan THEN Len(s) - 1
    ELSE LET len == Abs(s[2].x.v - s[1].x.v) + Abs(s[2].y.v - s[1].y.v) IN
         IF len >= rem THEN 0 ELSE 1 + C13_Dropped(Tail(s), rem - len)

\* C13 as amended: the count after the call is the count before minus the
\* waypoints erosion dropped whole; old_head is popped before new_head is
\* pushed, so the count never grows in a straight tick.
C13_StraightTickKeepsCount ==
    [][ C13_Straight
        => /\ Len(snake') = Len(snake) - C13_Dropped(snake, CallDistance')
           /\ Len(snake') <= Len(snake) ]_vars

\* two ticks after Game::new, the last one straight, and still two waypoints
C13_Witness ==
    /\ status = "ok"
    /\ ticks >= 2
    /\ fits
    /\ call.movement = None
    /\ CallDistance > 0
    /\ Len(snake) = 2
    /\ direction = args.direction

\* ---------------------------------------------------------------------
\* C14: in a tick where a turn is resolved, the last two waypoints are
\* breakpoint then final head: breakpoint keeps old_head's coordinate on the
\* non-turning axis and has old_rounded + 0.5 (new_rounded > old_rounded) or
\* old_rounded - 0.5 on the turning axis; final head = breakpoint +
\* new_direction * (full_distance - |old - breakpoint component|);
\* direction = new_direction; the two replace old_head and the straight-line
\* new_head is not pushed.
C14_Resolved ==
    /\ status = "ok"
    /\ ticks' = ticks + 1
    /\ C6_TurnResolved

C14_OldHead == Last(snake)

C14_NewHead == Along(C14_OldHead, direction, CallDistance')

C14_OnX == Round(C14_OldHead.x) # Round(C14_NewHead.x)

C14_Edge ==
    LET old_rounded == IF C14_OnX THEN Round(C14_OldHead.x).v ELSE Round(C14_OldHead.y).v
        new_rounded == IF C14_OnX THEN Round(C14_NewHead.x).v ELSE Round(C14_NewHead.y).v
    IN IF new_rounded > old_rounded THEN old_rounded + Half ELSE old_rounded - Half

C14_Breakpoint ==
    IF C14_OnX THEN V(C14_Edge, C14_OldHead.y.v) ELSE V(C14_OldHead.x.v, C14_Edge)

C14_Leftover ==
    CallDistance' - Abs((IF C14_OnX THEN C14_OldHead.x.v ELSE C14_OldHead.y.v) - C14_Edge)

C14_TurnWaypoints ==
    [][ C14_Resolved
        => /\ Len(snake') >= 2
           /\ snake'[Len(snake') - 1] = C14_Breakpoint
           /\ Last(snake') = Along(C14_Breakpoint, MovementVector(call'.movement), C14_Leftover)
           /\ direction' = MovementVector(call'.movement)
           /\ Len(snake') = Len(snake) - C13_Dropped(snake, CallDistance') + 1 ]_vars

\* a turn resolved in the last tick part way through the step: the last
\* segment is shorter than the distance of the call, its start is off the
\* previous waypoint, and the snake has a corner
C14_Witness ==
    /\ status = "ok"
    /\ ticks > 0
    /\ call.movement \in Movements
    /\ direction = MovementVector(IF call.movement \in Movements THEN call.movement ELSE "Top")
    /\ Len(snake) >= 3
    /\ LET head == Last(snake)
           breakpoint == snake[Len(snake) - 1]
           before == snake[Len(snake) - 2]
           leftover == Abs(head.x.v - breakpoint.x.v) + Abs(head.y.v - breakpoint.y.v)
       IN /\ ~before.x.nan
          /\ before # breakpoint
          /\ leftover > 0
          /\ leftover < CallDistance

\* ---------------------------------------------------------------------
\* C15: in a tick where a turn is resolved, with 0 <= full_distance <= total
\* polyline length, distance(old_head, breakpoint) + distance(breakpoint,
\* final head) = full_distance, and the total polyline length after the tick
\* is the total length before it.
C15_ProgressPreserved ==
    [][ ( C14_Resolved /\ FGe(TotalLength(snake), F(CallDistance')) )
        => /\ Len(snake') >= 2
           /\ LET breakpoint == snake'[Len(snake') - 1]
                  to_edge == SegLength(Segment(Last(snake), breakpoint))
                  from_edge == SegLength(Segment(breakpoint, Last(snake')))
              IN FAdd(to_edge, from_edge) = F(CallDistance')
           /\ TotalLength(snake') = TotalLength(snake) ]_vars

\* a turn resolved in the last tick, with no call so far beyond the snake's
\* length, and the length the snake was built with
C15_Witness ==
    /\ status = "ok"
    /\ ticks > 0
    /\ fits
    /\ call.movement \in Movements
    /\ direction = MovementVector(IF call.movement \in Movements THEN call.movement ELSE "Top")
    /\ direction # args.direction
    /\ Len(snake) >= 3
    /\ snake[Len(snake) - 1] # Last(snake)
    /\ TotalLength(snake) = F(args.snake_length * One)

\* ---------------------------------------------------------------------
\* C16: when a perpendicular turn is requested and the straight advance
\* changes neither the rounded x nor the rounded y of the head, the tick is
\* a straight tick: the snake of process(timespan, None), direction unchanged.
C16_Deferred ==
    /\ status = "ok"
    /\ ticks' = ticks + 1
    /\ call'.movement \in Movements
    /\ MovementVector(call'.movement) # direction
    /\ MovementVector(call'.movement) # Along(V(0, 0), direction, -One)
    /\ Round(C14_OldHead.x) = Round(C14_NewHead.x)
    /\ Round(C14_OldHead.y) = Round(C14_NewHead.y)

C16_DeferredTurnIsStraight ==
    [][ C16_Deferred
        => /\ direction' = direction
           /\ snake' = process_movement(snake, direction, speed, call'.timespan, None).snake ]_vars

\* the last call asked for a perpendicular turn, the head moved, and the
\* direction is not the one asked for
C16_Witness ==
    /\ status = "ok"
    /\ ticks > 0
    /\ call.movement \in Movements
    /\ CallDistance > 0
    /\ LET asked == MovementVector(IF call.movement \in Movements THEN call.movement ELSE "Top")
       IN asked # direction /\ asked # Along(V(0, 0), direction, -One)
    /\ Len(snake) >= 2
    /\ Last(snake) # snake[Len(snake) - 1]

\* ---------------------------------------------------------------------
\* C17: when the straight advance of a tick changes both the rounded x and
\* the rounded y of the head and a turn is admissible, the turn is resolved
\* on the x axis: the breakpoint has the edge value on x and old_head's y,
\* and the direction becomes the requested one.
C17_BothChanged ==
    /\ status = "ok"
    /\ ticks' = ticks + 1
    /\ call'.movement \in Movements
    /\ MovementVector(call'.movement) # direction
    /\ MovementVector(call'.movement) # VecNeg(direction)
    /\ Round(C14_OldHead.x) # Round(C14_NewHead.x)
    /\ Round(C14_OldHead.y) # Round(C14_NewHead.y)

C17_XWins ==
    [][ C17_BothChanged
        => LET old_head == Last(snake)
               old_rounded == Round(old_head.x).v
               new_rounded == Round(C14_NewHead.x).v
               edge == IF new_rounded > old_rounded THEN old_rounded + Half
                                                    ELSE old_rounded - Half
           IN /\ Len(snake') >= 2
              /\ snake'[Len(snake') - 1] = V(edge, old_head.y.v)
              /\ direction' = MovementVector(call'.movement) ]_vars

\* a turn resolved in a tick made along an assigned diagonal: the head
\* before the tick, found back from the breakpoint, changed both rounded
\* coordinates on its way to new_head
C17_Witness ==
    /\ status = "ok"
    /\ ticks > 0
    /\ args.direction \in Diagonals
    /\ call.movement \in Movements
    /\ direction = MovementVector(IF call.movement \in Movements THEN call.movement ELSE "Top")
    /\ Len(snake) >= 2
    /\ LET head == Last(snake)
           breakpoint == snake[Len(snake) - 1]
           leftover == Abs(head.x.v - breakpoint.x.v) + Abs(head.y.v - breakpoint.y.v)
           old_head == Along(breakpoint, V(args.direction.x.v, 0), leftover - CallDistance)
           new_head == Along(old_head, args.direction, CallDistance)
       IN /\ leftover <= CallDistance
          /\ Round(old_head.x) # Round(new_head.x)
          /\ Round(old_head.y) # Round(new_head.y)

\* ---------------------------------------------------------------------
\* C18: in every tick that resolves a turn, the breakpoint lies on the closed
\* straight path from old_head to new_head, the leftover full_distance -
\* |old - breakpoint component| is within [0, full_distance], and the final
\* head is at breakpoint + new_direction * leftover, never backwards; also
\* from heads on a half-integer coordinate and in steps of several cells.
C18_OnPath == C8_OnSegment(snake'[Len(snake') - 1], C14_OldHead, C14_NewHead)

C18_LeftoverInRange ==
    LET breakpoint == snake'[Len(snake') - 1]
        leftover == CallDistance' - ( Abs(C14_OldHead.x.v - breakpoint.x.v)
                                    + Abs(C14_OldHead.y.v - breakpoint.y.v) )
    IN /\ leftover \in 0..CallDistance'
       /\ Last(snake') = Along(breakpoint, MovementVector(call'.movement), leftover)

C18_BreakpointOnPath ==
    [][ C14_Resolved => Len(snake') >= 2 /\ C18_OnPath /\ C18_LeftoverInRange ]_vars

\* the first tick, from the half-integer head Game::new gives, was a step of
\* two cells along the axis that resolved a turn one cell away, at the first
\* cell edge on the way
C18_Witness ==
    /\ status = "ok"
    /\ ticks = 1
    /\ CallDistance = 2 * One
    /\ call.movement \in Movements
    /\ direction # args.direction
    /\ Len(snake) >= 2
    /\ LET old_head == NewHead(width, height)
           breakpoint == snake[Len(snake) - 1]
       IN /\ breakpoint = Along(old_head, args.direction, One)
          /\ Last(snake) = Along(breakpoint, direction, One)

\* ---------------------------------------------------------------------
\* C19: for a game constructed with an axis-aligned unit direction and
\* snake_length >= 1, after any sequence of process calls with 0 <=
\* full_distance <= total polyline length, every segment between consecutive
\* waypoints is horizontal, vertical or of length zero, and the last segment
\* is of length zero or points exactly along the current direction.
C19_Aligned(a, b) ==
    /\ ~a.x.nan /\ ~a.y.nan /\ ~b.x.nan /\ ~b.y.nan
    /\ a.x.v = b.x.v \/ a.y.v = b.y.v

C19_AlongDirection(a, b) ==
    LET dx == b.x.v - a.x.v
        dy == b.y.v - a.y.v
    IN \/ dx = 0 /\ dy = 0
       \/ /\ dx * direction.y.v = dy * direction.x.v
          /\ dx * direction.x.v + dy * direction.y.v > 0

C19_AxisAlignedPath ==
    (status = "ok" /\ fits)
        => /\ Len(snake) >= 2
           /\ \A i \in 1..(Len(snake) - 1) : C19_Aligned(snake[i], snake[i + 1])
           /\ C19_AlongDirection(snake[Len(snake) - 1], Last(snake))

\* ---------------------------------------------------------------------
\* C20: for a game constructed with an axis-aligned unit direction, in every
\* tick at most one of rounded_x_changed / rounded_y_changed is true, and it
\* is the one on the axis of the current direction; a resolved turn switches
\* direction to the perpendicular axis, and no tick changes it otherwise.
C20_RoundedXChanged == Round(C14_OldHead.x) # Round(C14_NewHead.x)

C20_RoundedYChanged == Round(C14_OldHead.y) # Round(C14_NewHead.y)

C20_Perpendicular(a, b) ==
    /\ a \in Directions
    /\ b \in Directions
    /\ a.x.v * b.x.v + a.y.v * b.y.v = 0

C20_TravelAxisOnly ==
    [][ (status = "ok" /\ ticks' = ticks + 1)
        => /\ ~(C20_RoundedXChanged /\ C20_RoundedYChanged)
           /\ C20_RoundedXChanged => (direction.x.v # 0 /\ direction.y.v = 0)
           /\ C20_RoundedYChanged => (direction.y.v # 0 /\ direction.x.v = 0)
           /\ C6_TurnResolved => C20_Perpendicular(direction, direction')
           /\ direction' = direction \/ C20_Perpendicular(direction, direction') ]_vars

\* the first tick resolved a turn: the game now heads across the direction
\* it was built with, from a breakpoint on a cell edge of the axis it
\* travelled
C20_Witness ==
    /\ status = "ok"
    /\ ticks = 1
    /\ call.movement \in Movements
    /\ C20_Perpendicular(args.direction, direction)
    /\ Len(snake) >= 2
    /\ LET breakpoint == snake[Len(snake) - 1]
           travelled == IF args.direction.x.v # 0 THEN breakpoint.x.v ELSE breakpoint.y.v
       IN travelled % One = Half

====
